---- MODULE Spec2Model ----
(***************************************************************************)
(* A state-machine model of src/src/sim.js (the orrery simulation core):   *)
(* the global `state` object, the optional ephemeris provider, the render  *)
(* loop with its one suspension point (the await of getPositions), and the *)
(* input handlers wired by bindUI.                                         *)
(*                                                                         *)
(* Number representations (TLC has 32-bit integers only, no reals):        *)
(*   days  : integer count of 1/UnitsPerDay day (0.2 s), so that the tick  *)
(*           step speed/1000 day and the 1/86400 day nudge are both exact. *)
(*   zoom  : integer count of 1e-7 (fixed point, truncating products).     *)
(*   pos   : pan offset in half pixels (clientWidth / 2 may be x.5).       *)
(*   positions are kept symbolic: a point is named by the model that       *)
(*           produced it, the body and the `days` it was computed for; the *)
(*           trigonometry is left uninterpreted.                           *)
(***************************************************************************)
EXTENDS Integers, Sequences, FiniteSets, TLC

(* ------------------------------ bounds --------------------------------- *)
\* Spec (every handler): frames, and input events and library faults.
MaxTicks == 2
MaxEvents == 1
\* SpecClock (the clock, the trails, the provider).
MaxClockTicks == 3
MaxClockEvents == 1
\* SpecView (pan and zoom).
MaxViewEvents == 4
\* SpecPlay: renders between two clearings of the trails, and date commits.
MaxPlayTicks == 250
MaxPlayEvents == 1
\* Largest value the speed slider delivers.
MaxSpeed == 2
\* SpecScene (what render draws).
MaxSceneTicks == 3
MaxSceneEvents == 2

(* ----------------------- program constants ----------------------------- *)
\* sim.js:602  if (state.history[id].length > 200) state.history[id].shift();
TrailCap == 200
\* sim.js:686  Math.max(0.0001, ...) in units of 1e-7
ZoomFloor == 1000
\* sim.js:713  cap at 0.5, in units of 1e-7
ZoomCap == 5000000
\* sim.js:708  maxRadius
MaxRadius == 6000
\* sim.js:709  sidebar allowance subtracted from clientWidth
Sidebar == 320

\* 1 day in model units: lcm(1000, 86400), so that speed/1000 (sim.js:719)
\* and 1/86400 (sim.js:676) are whole numbers of units.
UnitsPerDay == 86400 * 5

\* sim.js:23-30  DEFAULT_PLANETS ids, in table order
PLANETS == <<"mercury", "venus", "earth", "mars", "jupiter", "saturn">>
PlanetIds == {PLANETS[i] : i \in 1..Len(PLANETS)}
\* sim.js:34  keys of state.history: every planet id, plus sun
HistoryKeys == PlanetIds \cup {"sun"}

(* --------------------------- positions --------------------------------- *)
\* A 2D point {x, y}.  k names how it was produced:
\*   "origin"  the literal { x: 0, y: 0 }
\*   "linear"  linearProvider's dist*cos(a), dist*sin(a) for body id at days d
\*   "eph"     Astronomy.Ecliptic(body, date) scaled, for body id at days d
\*   "nan"     an object whose x or y is not a number (vec.x undefined)
Origin == [k |-> "origin", id |-> "sun", d |-> 0]
NaNPoint(id) == [k |-> "nan", id |-> id, d |-> 0]

\* linearProvider(days): res.sun and one point per planet (moonAbsAng and
\* nodeAbsAng are numbers, not objects, and are left out of the point map).
linearProvider(d) ==
  [id \in HistoryKeys |->
     IF id = "sun" THEN Origin ELSE [k |-> "linear", id |-> id, d |-> d]]

\* The provider closure built by tryAutoProvider when the loop over PLANETS
\* completes without throwing: bad is the set of planets for which
\* Astronomy.Ecliptic returned an object without numeric x / y.
providerResult(d, bad) ==
  [id \in HistoryKeys |->
     IF id = "sun" THEN Origin
     ELSE IF id \in bad THEN NaNPoint(id)
     ELSE [k |-> "eph", id |-> id, d |-> d]]

\* pos[id].x - anchor.x, pos[id].y - anchor.y as a formal difference p - o.
Rel(p, o) == [p |-> p, o |-> o]

\* Variant of Anchor that keeps the sun at the centre in either frame mode.
AnchorSun(v, pos) == Origin

\* sim.js:332  the anchor of a render
Anchor(v, pos) == IF v = "geo" THEN pos["earth"] ELSE Origin

(* ------------------------- the element pool ---------------------------- *)
\* sim.js:9-22  the twelve ZODIAC entries, in table order
ZODIAC == <<"aries", "taurus", "gemini", "cancer", "leo", "virgo", "libra",
            "scorpio", "sagittarius", "capricorn", "aquarius", "pisces">>

\* sim.js:230-252  the connector lines and outer markers that are not a
\* planet's
Extras == {"moon", "nodeA", "nodeB", "sun"}

\* The elements initPools creates, each named <<pool member, key>>.
PoolKeys ==
  ({"zodiacLines", "zodiacText"} \X {ZODIAC[i] : i \in 1..Len(ZODIAC)})
  \cup ({"orbitCircles", "planetGroups", "planetCircles", "planetTexts",
         "planetTitles", "trailPaths", "markerTexts"} \X PlanetIds)
  \cup ({"markerLines"} \X (PlanetIds \cup Extras))
  \cup ({"outerMarkers"} \X Extras)
  \cup ({"moonElements"} \X {"moon", "orbit", "nodeA", "nodeB"})
  \cup ({"outerRing", "moonGroup", "sunCircle", "sunText"} \X {""})

\* A coordinate attribute that has not been set (or was removed).
Unplaced == Rel([k |-> "unset", id |-> "sun", d |-> 0], Origin)

\* sim.js:155-277  initPools: every element is created once; style.display
\* is not set ("") and no body coordinate is.
initPools == [k \in PoolKeys |-> [display |-> "", at |-> Unplaced]]

VARIABLES
  days,               \* state.days
  view,               \* state.view: "helio" | "geo"
  speed,              \* state.speed
  direction,          \* state.direction: 1 | -1
  zoom,               \* state.zoom
  pos,                \* state.pos: [x, y]
  panning,            \* state.panning
  history,            \* state.history: id -> sequence of relative points
  chkOrbits,          \* DOM.chkOrbits.checked
  chkTrails,          \* DOM.chkTrails.checked
  pool,               \* the pooled elements: style.display and the body
                      \* coordinate each one is placed at
  world,              \* the transform attribute of ui.world
  astronomy,          \* whether window.Astronomy is present
  ephemerisProvider,  \* "null" | "provider"
  awaiting,           \* render() calls suspended at `await getPositions`
  appended,           \* history variable: what each render since the last
                      \* clearing of the trails drew from, oldest first
  ticks,              \* budget: loop() calls so far
  events,             \* budget: input events and library faults so far
  last                \* the handler that ran last, with the state it found

vars == <<days, view, speed, direction, zoom, pos, panning, history,
          chkOrbits, chkTrails, pool, world,
          astronomy, ephemerisProvider, awaiting, appended, ticks, events, last>>

\* The page's elements that only render() and the two checkboxes change.
dom == <<chkOrbits, chkTrails, pool, world>>

(* --------------------------- environment ------------------------------- *)
\* (Date.now() - J2000) / 86400000 as the host clock may deliver it.
NowValues == {0, 3 * UnitsPerDay + 7}
\* <<clientWidth, clientHeight>> of the viewport element: a desktop window,
\* one just wider than the sidebar allowance, one narrower, one collapsed.
Viewports == {<<1920, 1080>>, <<322, 600>>, <<300, 600>>, <<800, 0>>}
\* Sets of planets for which Astronomy.Ecliptic may return an object that
\* has no numeric x / y.
BadSets == {{"earth"}, {"mercury", "mars"}}

(* ----------------------------- helpers --------------------------------- *)
Min(a, b) == IF a <= b THEN a ELSE b
Max(a, b) == IF a >= b THEN a ELSE b

\* What a handler leaves in `last`: its name, its input, and the clock, zoom
\* and trail length it found.
Note(op, arg) ==
  [op |-> op, arg |-> arg, days |-> days, zoom |-> zoom,
   len |-> Len(history["sun"])]

\* Variant of ClearedHistory that walks PLANETS and so leaves the sun's trail.
ClearedPlanetsOnly ==
  [id \in HistoryKeys |-> IF id = "sun" THEN history[id] ELSE <<>>]

\* sim.js:34  PLANETS.forEach(p => state.history[p.id] = []);
\* state.history.sun = []
EmptyHistory == [id \in HistoryKeys |-> <<>>]

\* Object.keys(state.history).forEach(k => state.history[k] = [])
ClearedHistory == [id \in HistoryKeys |-> <<>>]

\* sim.js:706-715  calculateFitZoom: (viewWidth * 0.4) / maxRadius in units
\* of 1e-7 is viewWidth * 4e6 / 6000; 1000 is cancelled to stay in 32 bits.
FitAxis(len) == (len * 4000) \div (MaxRadius \div 1000)
FitZoom(vp) == Min(Min(FitAxis(vp[1] - Sidebar), FitAxis(vp[2])), ZoomCap)
FitPos(vp) == [x |-> vp[1], y |-> vp[2]]

(* ------------------------------ provider ------------------------------- *)
\* A settled getPositions promise: which model produced it, for which days,
\* and (provider only) the planets whose vector came back malformed.
Settled(src, d, bad) == [src |-> src, d |-> d, bad |-> bad]

\* The PositionSet a settled promise holds.
Positions(s) ==
  IF s.src = "linear" THEN linearProvider(s.d) ELSE providerResult(s.d, s.bad)

\* Variant of providerCall whose catch returns linearProvider(days) but
\* leaves ephemerisProvider set.
providerCallKeepsProvider(d) ==
  {[res |-> Settled("eph", d, {}), provider |-> "provider", fault |-> FALSE],
   [res |-> Settled("linear", d, {}), provider |-> "provider", fault |-> TRUE]}

\* sim.js:111-131  one call of the provider closure: the outcomes of the
\* Astronomy.Ecliptic calls are the host library's; a throw (or a null
\* vector, whose vec.x throws) is caught, disables the provider and yields
\* linearProvider(days).  Each outcome: the promise, ephemerisProvider after,
\* and whether the library misbehaved (threw or returned a malformed vector).
providerCall(d) ==
  {[res |-> Settled("eph", d, {}), provider |-> "provider", fault |-> FALSE],
   [res |-> Settled("linear", d, {}), provider |-> "null", fault |-> TRUE]}
  \cup {[res |-> Settled("eph", d, b), provider |-> "provider", fault |-> TRUE] :
          b \in BadSets}

\* sim.js:149-152  getPositions
getPositions(d) ==
  IF ephemerisProvider = "provider" THEN providerCall(d)
  ELSE {[res |-> Settled("linear", d, {}), provider |-> "null", fault |-> FALSE]}

(* ------------------------------- init ---------------------------------- *)
\* The state when init() reaches its first loop(): the module-level
\* initialisers, tryAutoProvider, calculateFitZoom(vp).  state.speed is 0
\* there; s > 0 gives the state after one input of the speed slider.
Boot(nows, vps, lib, s, chk) ==
  /\ days \in nows
  /\ view = "helio"
  /\ speed = s
  /\ direction = 1
  /\ \E vp \in vps : zoom = FitZoom(vp) /\ pos = FitPos(vp)
  /\ panning = FALSE
  /\ history = EmptyHistory
  /\ chkOrbits \in chk
  /\ chkTrails \in chk
  /\ pool = initPools
  /\ world = [set |-> FALSE, x |-> 0, y |-> 0, zoom |-> 0]
  /\ astronomy \in lib
  /\ ephemerisProvider = IF astronomy THEN "provider" ELSE "null"
  /\ awaiting = <<>>
  /\ appended = <<>>
  /\ ticks = 0
  /\ events = 0
  /\ last = [op |-> "init", arg |-> 0, days |-> 0, zoom |-> 0, len |-> 0]

Init == Boot(NowValues, Viewports, BOOLEAN, 0, {TRUE})

(* ------------------------------- loop ---------------------------------- *)
\* Variant of TickStep without the division by 1000.
TickStepWholeDays(s, dir) == s * UnitsPerDay * dir

\* Variant of TickStep that ignores state.direction.
TickStepForwardOnly(s, dir) == s * (UnitsPerDay \div 1000)

\* sim.js:719  (state.speed / 1000) * state.direction, in model units
TickStep(s, dir) == s * (UnitsPerDay \div 1000) * dir

\* sim.js:718-722  loop(): advance the clock, call render() (which runs up
\* to its await), schedule the next frame.  A frame callback is a task: it
\* starts only when no continuation is queued.
Loop ==
  /\ awaiting = <<>>
  /\ LET d == IF speed > 0 THEN days + TickStep(speed, direction) ELSE days
     IN /\ days' = d
        /\ \E o \in getPositions(d) :
             /\ awaiting' = Append(awaiting, o.res)
             /\ ephemerisProvider' = o.provider
  /\ last' = Note("loop", 0)
  /\ UNCHANGED dom
  /\ UNCHANGED <<view, speed, direction, zoom, pos, panning, history,
                 astronomy, appended>>

\* The Astronomy library misbehaved in the provider call this loop() made.
Faulted ==
  /\ ephemerisProvider = "provider"
  /\ \/ ephemerisProvider' = "null"
     \/ awaiting'[Len(awaiting')].bad # {}

\* Variant of Push that never evicts (the length test dropped).
PushNoShift(h, e) == Append(h, e)

\* Variant of Push that evicts the newest entry (pop for shift).
PushDropNewest(h, e) ==
  LET a == Append(h, e) IN IF Len(a) > TrailCap THEN SubSeq(a, 1, TrailCap) ELSE a

\* Variant of Push that puts the new entry first (unshift for push, pop for
\* shift).
PushFront(h, e) ==
  LET a == <<e>> \o h IN IF Len(a) > TrailCap THEN SubSeq(a, 1, TrailCap) ELSE a

\* sim.js:602  push, then shift when longer than the cap
Push(h, e) ==
  LET a == Append(h, e) IN IF Len(a) > TrailCap THEN Tail(a) ELSE a

(* ------------------------------ drawing -------------------------------- *)
\* "block" or "none"
Display(shown) == IF shown THEN "block" ELSE "none"

\* Variant of TrailShown that draws a trail of a single point.
TrailShownAnyPoint(on, pts) == on /\ Len(pts) > 0

\* sim.js:381-394  whether render shows a planet's trail path
TrailShown(on, pts) == on /\ Len(pts) > 1

\* sim.js:358  whether render shows a planet's orbit circle
OrbitShown(on, isCenter) == on

\* sim.js:348, 458  isCenter
IsCenter(v, id) == v = "geo" /\ id = "earth"

\* sim.js:335-596  what render leaves of element k = <<member, key>>, found
\* as e: p are the positions, v the frame mode, h the trails before this
\* render's own entries.  Only style.display and the body coordinate an
\* element is placed at are kept; sizes, colours, the angular positions on
\* the outer ring and the text of a trail path's d are left out.
Redrawn(k, e, p, v, h) ==
  LET anchor == Anchor(v, p)
      m == k[1]
      id == k[2]
  IN CASE m = "orbitCircles" ->
            [display |-> Display(OrbitShown(chkOrbits, IsCenter(v, id))),
             at |-> Rel(Origin, anchor)]
       [] m = "planetGroups" ->
            [display |-> Display(~IsCenter(v, id)), at |-> Rel(p[id], anchor)]
       [] m = "planetTexts" -> [e EXCEPT !.display = "block"]
       [] m = "trailPaths" ->
            [e EXCEPT !.display = Display(TrailShown(chkTrails, h[id]))]
       [] m = "moonGroup" -> [e EXCEPT !.at = Rel(p["earth"], anchor)]
       [] m = "sunCircle" ->
            [e EXCEPT !.at = IF v = "geo" THEN Rel(p["sun"], anchor)
                             ELSE Rel(Origin, Origin)]
       [] m = "sunText" ->
            [e EXCEPT !.at = IF v = "geo" THEN Rel(p["sun"], anchor)
                             ELSE Unplaced]
       [] m = "outerRing" ->
            [display |-> "block",
             at |-> IF v = "helio" THEN Rel(Origin, Origin)
                    ELSE Rel(p["earth"], anchor)]
       [] m = "markerTexts" -> [e EXCEPT !.display = Display(~IsCenter(v, id))]
       [] m = "markerLines" /\ id \in PlanetIds ->
            [display |-> Display(~IsCenter(v, id)), at |-> Rel(p[id], anchor)]
       [] m = "markerLines" /\ id = "sun" ->
            IF v = "geo"
              THEN [display |-> "block", at |-> Rel(p["sun"], anchor)]
              ELSE [e EXCEPT !.display = "none"]
       [] m = "markerLines" /\ id \in {"moon", "nodeA", "nodeB"} ->
            [e EXCEPT !.display = "block"]
       [] m = "outerMarkers" /\ id = "sun" ->
            [e EXCEPT !.display = Display(v = "geo")]
       [] OTHER -> e

\* sim.js:335  translate(state.pos.x, state.pos.y) scale(state.zoom)
Transform(at, z) == [set |-> TRUE, x |-> at.x, y |-> at.y, zoom |-> z]

\* Variant of Draw that rebuilds the layers and leaves hidden elements out.
DrawVisibleOnly(pl, p, v, h) ==
  LET all == [k \in DOMAIN pl |-> Redrawn(k, pl[k], p, v, h)]
  IN [k \in {x \in DOMAIN pl : all[x].display # "none"} |-> all[k]]

\* sim.js:335-596  render's pass over the pool: every element it finds is
\* updated in place; none is created or removed.
Draw(pl, p, v, h) == [k \in DOMAIN pl |-> Redrawn(k, pl[k], p, v, h)]


\* sim.js:332-604  the rest of render() after the await: resolve the anchor
\* and append one relative point per key of pos that is an object and a key
\* of state.history.
Resume ==
  /\ awaiting # <<>>
  /\ LET s == Head(awaiting)
         p == Positions(s)
         anchor == Anchor(view, p)
     IN /\ history' = [id \in HistoryKeys |-> Push(history[id], Rel(p[id], anchor))]
        /\ appended' = Append(appended, [res |-> s, view |-> view])
        /\ pool' = Draw(pool, p, view, history)
        /\ world' = Transform(pos, zoom)
  /\ awaiting' = Tail(awaiting)
  /\ last' = Note("render", 0)
  /\ UNCHANGED <<chkOrbits, chkTrails>>
  /\ UNCHANGED <<days, view, speed, direction, zoom, pos, panning,
                 astronomy, ephemerisProvider>>

(* --------------------------- date fields ------------------------------- *)
\* A field's text is a tuple of one-character strings.
Digits == <<"0", "1", "2", "3", "4", "5", "6", "7", "8", "9">>
IsDigit(c) == \E i \in 1..10 : Digits[i] = c
DigitVal(c) == (CHOOSE i \in 1..10 : Digits[i] = c) - 1

\* A JavaScript number that is an integer or NaN.
NaN == [nan |-> TRUE, v |-> 0]
Num(n) == [nan |-> FALSE, v |-> n]

RECURSIVE SkipSpaces(_)
SkipSpaces(t) == IF t # <<>> /\ Head(t) = " " THEN SkipSpaces(Tail(t)) ELSE t

\* The value of the longest prefix of digits of t, continuing from acc.
RECURSIVE DigitRun(_, _)
DigitRun(t, acc) ==
  IF t # <<>> /\ IsDigit(Head(t))
    THEN DigitRun(Tail(t), acc * 10 + DigitVal(Head(t)))
    ELSE acc

\* parseInt(text, 10): leading white space, an optional sign, then digits up
\* to the first other character; NaN when no digit is found.
parseInt(text) ==
  LET t == SkipSpaces(text)
      signed == t # <<>> /\ Head(t) \in {"+", "-"}
      body == IF signed THEN Tail(t) ELSE t
      sign == IF signed /\ Head(t) = "-" THEN -1 ELSE 1
  IN IF body # <<>> /\ IsDigit(Head(body))
       THEN Num(sign * DigitRun(body, 0))
       ELSE NaN

\* a - 1 on a JavaScript number
MinusOne(n) == IF n.nan THEN NaN ELSE Num(n.v - 1)

(* ----------------------- the host's Date object ------------------------ *)
\* A Date at 12:00 UTC: NaN (Invalid Date) or a day number counted from
\* 1970-01-01.  MakeDay and the field readers follow the proleptic
\* Gregorian calendar.
InvalidDate == [nan |-> TRUE, day |-> 0]

\* MakeDay(year, month, date): month is 0-based and may lie outside 0..11,
\* date may lie outside the month; both carry over.
MakeDay(year, month, date) ==
  LET ym == year + (month \div 12)
      mn == (month % 12) + 1
      y == IF mn <= 2 THEN ym - 1 ELSE ym
      era == y \div 400
      yoe == y - era * 400
      mp == IF mn > 2 THEN mn - 3 ELSE mn + 9
      doy == (153 * mp + 2) \div 5
      doe == yoe * 365 + (yoe \div 4) - (yoe \div 100) + doy
  IN era * 146097 + doe - 719468 + (date - 1)

\* YearFromTime, MonthFromTime (0-based), DateFromTime of a day number.
CivilFromDay(day) ==
  LET z == day + 719468
      era == z \div 146097
      doe == z - era * 146097
      yoe == (doe - (doe \div 1460) + (doe \div 36524) - (doe \div 146096)) \div 365
      doy == doe - (365 * yoe + (yoe \div 4) - (yoe \div 100))
      mp == (5 * doy + 2) \div 153
      d == doy - ((153 * mp + 2) \div 5) + 1
      m == IF mp < 10 THEN mp + 3 ELSE mp - 9
      y == yoe + era * 400 + (IF m <= 2 THEN 1 ELSE 0)
  IN [y |-> y, m |-> m - 1, d |-> d]

\* TimeClip: a time value beyond 8.64e15 ms from 1970 (1e8 days) is NaN.
TimeClip(day) ==
  IF day >= -100000000 /\ day <= 99999999
    THEN [nan |-> FALSE, day |-> day] ELSE InvalidDate

\* new Date(Date.UTC(2000, 0, 1, 12)); also the day number of J2000
J2000Day == MakeDay(2000, 0, 1)

\* date.setUTCFullYear(y) on a valid date
setUTCFullYear(date, y) ==
  IF date.nan \/ y.nan THEN InvalidDate
  ELSE LET c == CivilFromDay(date.day) IN TimeClip(MakeDay(y.v, c.m, c.d))

\* date.setUTCMonth(m)
setUTCMonth(date, m) ==
  IF date.nan \/ m.nan THEN InvalidDate
  ELSE LET c == CivilFromDay(date.day) IN TimeClip(MakeDay(c.y, m.v, c.d))

\* date.setUTCDate(d)
setUTCDate(date, d) ==
  IF date.nan \/ d.nan THEN InvalidDate
  ELSE LET c == CivilFromDay(date.day) IN TimeClip(MakeDay(c.y, c.m, d.v))

\* sim.js:633-639  the Date that setDateFromInputs builds from the fields
DateFromInputs(f) ==
  LET m == MinusOne(parseInt(f[2]))
      d == parseInt(f[3])
      d0 == [nan |-> FALSE, day |-> J2000Day]
      d1 == setUTCFullYear(d0, parseInt(f[1]))
      d2 == setUTCMonth(d1, m)
  IN setUTCDate(d2, d)

\* sim.js:7  J2000 is 2000-01-01T12:00:00Z: the hour of the reference epoch
J2000Hour == 12

\* sim.js:636  Date.UTC(2000, 0, 1, 12): the hour of the date the handler
\* starts from; the three setters keep the time within the day.
BaseHour == 12

\* Variant of DaysOf for a handler that starts from midnight.
DaysOfMidnight(date) ==
  (date.day - J2000Day) * UnitsPerDay - J2000Hour * (UnitsPerDay \div 24)

\* sim.js:641  (date.getTime() - J2000) / 86400000, in model units
DaysOf(date) ==
  (date.day - J2000Day) * UnitsPerDay
    + (BaseHour - J2000Hour) * (UnitsPerDay \div 24)

(* --------------------------- input handlers ---------------------------- *)
\* An input handler is a task: it runs only when no continuation of render()
\* is queued (continuations are microtasks; they run before the next task).
\* Variant of Idle for a continuation queued as a task, so that a handler
\* may run while one render is suspended.
IdleOrOneSuspended == Len(awaiting) <= 1

\* Variant of Idle without the ordering of continuations before tasks.
Anytime == TRUE

Idle == awaiting = <<>>

\* sim.js:632-644  setDateFromInputs, f = <<v-year, v-month, v-day>> texts
setDateFromInputs(f) ==
  /\ Idle
  /\ LET date == DateFromInputs(f)
     IN IF ~date.nan
          THEN /\ days' = DaysOf(date)
               /\ history' = ClearedHistory
               /\ appended' = <<>>
          ELSE UNCHANGED <<days, history, appended>>
  /\ last' = Note("date", f)
  /\ UNCHANGED dom
  /\ UNCHANGED <<view, speed, direction, zoom, pos, panning, astronomy,
                 ephemerisProvider, awaiting>>

\* Variant of UnitMult that takes a month as 30 days.
UnitMultMonth30(unit) ==
  CASE unit = "year" -> (UnitsPerDay * 1461) \div 4
    [] unit = "month" -> UnitsPerDay * 30
    [] unit = "day" -> UnitsPerDay
    [] unit = "hour" -> UnitsPerDay \div 24
    [] unit = "minute" -> UnitsPerDay \div 1440
    [] unit = "second" -> UnitsPerDay \div 86400
    [] OTHER -> 0

\* sim.js:671-676  the increment of a unit group, in model units
\* (365.25 = 1461/4, 30.44 = 761/25); 0 for an unknown data-unit
UnitMult(unit) ==
  CASE unit = "year" -> (UnitsPerDay * 1461) \div 4
    [] unit = "month" -> (UnitsPerDay \div 25) * 761
    [] unit = "day" -> UnitsPerDay
    [] unit = "hour" -> UnitsPerDay \div 24
    [] unit = "minute" -> UnitsPerDay \div 1440
    [] unit = "second" -> UnitsPerDay \div 86400
    [] OTHER -> 0
Units == {"year", "month", "day", "hour", "minute", "second"}
\* deltaY of a wheel event: away (down) is positive, toward (up) negative
WheelDeltas == {-100, 100}

\* sim.js:667-679  wheel on a .unit-group element
UnitWheel(unit, deltaY) ==
  /\ Idle
  /\ LET dir == IF deltaY < 0 THEN 1 ELSE -1
     IN days' = days + dir * UnitMult(unit)
  /\ history' = ClearedHistory
  /\ appended' = <<>>
  /\ last' = Note("nudge", <<unit, deltaY>>)
  /\ UNCHANGED dom
  /\ UNCHANGED <<view, speed, direction, zoom, pos, panning, astronomy,
                 ephemerisProvider, awaiting>>

\* Mouse movement per event, in pixels
Moves == {<<3, -2>>}

\* sim.js:682  window mousemove
MouseMove(mv) ==
  /\ Idle
  /\ pos' = IF panning THEN [x |-> pos.x + 2 * mv[1], y |-> pos.y + 2 * mv[2]]
            ELSE pos
  /\ last' = Note("mousemove", mv)
  /\ UNCHANGED dom
  /\ UNCHANGED <<days, view, speed, direction, zoom, panning, history,
                 astronomy, ephemerisProvider, awaiting, appended>>

\* sim.js:683  window mouseup
MouseUp ==
  /\ Idle
  /\ panning' = FALSE
  /\ last' = Note("mouseup", 0)
  /\ UNCHANGED dom
  /\ UNCHANGED <<days, view, speed, direction, zoom, pos, history,
                 astronomy, ephemerisProvider, awaiting, appended>>

\* sim.js:685  viewport mousedown
MouseDown ==
  /\ Idle
  /\ panning' = TRUE
  /\ last' = Note("mousedown", 0)
  /\ UNCHANGED dom
  /\ UNCHANGED <<days, view, speed, direction, zoom, pos, history,
                 astronomy, ephemerisProvider, awaiting, appended>>

\* state.zoom * 0.9 or * 1.1, truncated to the fixed-point unit
Scaled(z, deltaY) == IF deltaY > 0 THEN (z * 9) \div 10 ELSE (z * 11) \div 10

\* Variant of WheelZoom without the Math.max floor.
WheelZoomNoFloor(z, deltaY) == Scaled(z, deltaY)

\* sim.js:686  the new zoom of a viewport wheel event
WheelZoom(z, deltaY) == Max(ZoomFloor, Scaled(z, deltaY))

\* sim.js:686  wheel on the viewport
ViewportWheel(deltaY) ==
  /\ Idle
  /\ zoom' = WheelZoom(zoom, deltaY)
  /\ last' = Note("wheel", deltaY)
  /\ UNCHANGED dom
  /\ UNCHANGED <<days, view, speed, direction, pos, panning, history,
                 astronomy, ephemerisProvider, awaiting, appended>>

\* Variant of FrameClick that keeps the trails.
FrameClickKeepTrails(v) ==
  /\ Idle
  /\ view' = v
  /\ last' = Note("frame", v)
  /\ UNCHANGED dom
  /\ UNCHANGED <<days, speed, direction, zoom, pos, panning, history, astronomy,
                 ephemerisProvider, awaiting, appended>>

\* sim.js:689-690  btnHelio / btnGeo onclick
FrameClick(v) ==
  /\ Idle
  /\ view' = v
  /\ history' = ClearedHistory
  /\ appended' = <<>>
  /\ last' = Note("frame", v)
  /\ UNCHANGED dom
  /\ UNCHANGED <<days, speed, direction, zoom, pos, panning, astronomy,
                 ephemerisProvider, awaiting>>

\* sim.js:691-692  flowFwd / flowRev onclick
FlowClick(dir) ==
  /\ Idle
  /\ direction' = dir
  /\ last' = Note("flow", dir)
  /\ UNCHANGED dom
  /\ UNCHANGED <<days, view, speed, zoom, pos, panning, history, astronomy,
                 ephemerisProvider, awaiting, appended>>

\* Variant of SyncClick that clears the trails as the other jumps of days do.
SyncClickClearing(now) ==
  /\ Idle
  /\ days' = now
  /\ history' = ClearedHistory
  /\ appended' = <<>>
  /\ last' = Note("sync", now)
  /\ UNCHANGED dom
  /\ UNCHANGED <<view, speed, direction, zoom, pos, panning, astronomy,
                 ephemerisProvider, awaiting>>

\* sim.js:693  btnSync onclick
SyncClick(now) ==
  /\ Idle
  /\ days' = now
  /\ last' = Note("sync", now)
  /\ UNCHANGED dom
  /\ UNCHANGED <<view, speed, direction, zoom, pos, panning, history,
                 astronomy, ephemerisProvider, awaiting, appended>>

\* sim.js:694  btnReset onclick -> calculateFitZoom(vp)
ResetClick(vp) ==
  /\ Idle
  /\ zoom' = FitZoom(vp)
  /\ pos' = FitPos(vp)
  /\ last' = Note("reset", vp)
  /\ UNCHANGED dom
  /\ UNCHANGED <<days, view, speed, direction, panning, history, astronomy,
                 ephemerisProvider, awaiting, appended>>

\* sim.js:700  change on the orbits checkbox: the listener does nothing, the
\* box has flipped
OrbitsChange ==
  /\ Idle
  /\ chkOrbits' = ~chkOrbits
  /\ last' = Note("orbits", 0)
  /\ UNCHANGED <<days, view, speed, direction, zoom, pos, panning, history,
                 chkTrails, pool, world, astronomy, ephemerisProvider,
                 awaiting, appended>>

\* sim.js:701  change on the trails checkbox
TrailsChange ==
  /\ Idle
  /\ chkTrails' = ~chkTrails
  /\ last' = Note("trails", 0)
  /\ UNCHANGED <<days, view, speed, direction, zoom, pos, panning, history,
                 chkOrbits, pool, world, astronomy, ephemerisProvider,
                 awaiting, appended>>

\* Values the speed slider delivers
Speeds == 0..MaxSpeed

\* sim.js:697  slider.oninput
SpeedInput(s) ==
  /\ Idle
  /\ speed' = s
  /\ last' = Note("speed", s)
  /\ UNCHANGED dom
  /\ UNCHANGED <<days, view, direction, zoom, pos, panning, history,
                 astronomy, ephemerisProvider, awaiting, appended>>

(* --------------------------- specifications ---------------------------- *)
\* Texts of the three date fields at a commit.
T2000 == <<"2", "0", "0", "0">>
DateInputs ==
  {<<T2000, <<"0", "1">>, <<"0", "1">>>>,
   <<<<"+", "0", "0", "2", "0", "0", "1">>, <<"0", "2">>, <<"2", "8">>>>,
   <<T2000, <<"1", "3">>, <<"0", "1">>>>,
   <<T2000, <<"0", "2">>, <<"3", "1">>>>,
   <<<<>>, <<"0", "1">>, <<"0", "1">>>>,
   <<T2000, <<"x">>, <<"0", "1">>>>,
   <<T2000, <<"0", "1">>, <<"-">>>>,
   <<<<"3", "0", "0", "0", "0", "0">>, <<"0", "1">>, <<"0", "1">>>>}

\* Every input handler bindUI wires, with every input of the sets above.
Input ==
  \/ \E f \in DateInputs : setDateFromInputs(f)
  \/ \E u \in Units, dy \in WheelDeltas : UnitWheel(u, dy)
  \/ \E mv \in Moves : MouseMove(mv)
  \/ MouseUp
  \/ MouseDown
  \/ \E dy \in WheelDeltas : ViewportWheel(dy)
  \/ \E v \in {"helio", "geo"} : FrameClick(v)
  \/ \E dir \in {1, -1} : FlowClick(dir)
  \/ \E now \in NowValues : SyncClick(now)
  \/ \E vp \in Viewports : ResetClick(vp)
  \/ \E s \in Speeds : SpeedInput(s)
  \/ OrbitsChange
  \/ TrailsChange

\* The whole program: frames and any input, in any order.
\* The budgets: a frame, a continuation, an input event.
Frame(maxEvents) ==
  /\ Loop
  /\ ticks' = ticks + 1
  /\ events' = IF Faulted THEN events + 1 ELSE events
  /\ events' <= maxEvents
Continue == Resume /\ UNCHANGED <<ticks, events>>
Event(maxEvents, input) ==
  /\ events < maxEvents
  /\ input
  /\ events' = events + 1
  /\ UNCHANGED ticks

Next ==
  \/ ticks < MaxTicks /\ Frame(MaxEvents)
  \/ Continue
  \/ Event(MaxEvents, Input)

Spec == Init /\ [][Next]_vars

\* The clock: a desktop viewport, and the inputs that reach the clock, the
\* frame mode and the trails; paused as init() leaves it, or playing after
\* one input of the speed slider.
Desktop == <<1920, 1080>>
InitClock ==
  \/ Boot(NowValues, {Desktop}, BOOLEAN, 0, {TRUE})
  \/ Boot(NowValues, {Desktop}, BOOLEAN, MaxSpeed, {TRUE})

ClockInput ==
  \/ \E f \in DateInputs : setDateFromInputs(f)
  \/ \E u \in Units, dy \in WheelDeltas : UnitWheel(u, dy)
  \/ \E v \in {"helio", "geo"} : FrameClick(v)
  \/ \E dir \in {1, -1} : FlowClick(dir)
  \/ \E now \in NowValues : SyncClick(now)
  \/ \E s \in Speeds : SpeedInput(s)

NextClock ==
  \/ ticks < MaxClockTicks /\ Frame(MaxClockEvents)
  \/ Continue
  \/ Event(MaxClockEvents, ClockInput)

SpecClock == InitClock /\ [][NextClock]_vars

\* The view: any viewport, and the inputs that pan and zoom.
InitView == Boot({0}, Viewports, {FALSE}, 0, {TRUE})

ViewInput ==
  \/ \E mv \in Moves : MouseMove(mv)
  \/ MouseUp
  \/ MouseDown
  \/ \E dy \in WheelDeltas : ViewportWheel(dy)
  \/ \E vp \in Viewports : ResetClick(vp)

NextView ==
  \/ ticks < MaxTicks /\ Frame(MaxViewEvents)
  \/ Continue
  \/ Event(MaxViewEvents, ViewInput)

SpecView == InitView /\ [][NextView]_vars

\* Continuous play: init() and one input of the speed slider, then frames
\* (up to MaxPlayTicks renders between two clearings of the trails) and a
\* few commits of the date fields.
InitPlay == Boot({0}, {Desktop}, {FALSE}, MaxSpeed, {TRUE})

PlayInput == \E f \in DateInputs : setDateFromInputs(f)

NextPlay ==
  \/ Len(appended) < MaxPlayTicks /\ Loop /\ UNCHANGED <<ticks, events>>
  \/ Continue
  \/ Event(MaxPlayEvents, PlayInput)

SpecPlay == InitPlay /\ [][NextPlay]_vars

\* The scene: either checkbox state at start-up, and the inputs that decide
\* what a render draws: the frame buttons, the two checkboxes, a nudge.
InitScene == Boot({0}, {Desktop}, BOOLEAN, 0, BOOLEAN)

SceneInput ==
  \/ \E v \in {"helio", "geo"} : FrameClick(v)
  \/ OrbitsChange
  \/ TrailsChange
  \/ \E dy \in WheelDeltas : UnitWheel("day", dy)

NextScene ==
  \/ ticks < MaxSceneTicks /\ Frame(MaxSceneEvents)
  \/ Continue
  \/ Event(MaxSceneEvents, SceneInput)

SpecScene == InitScene /\ [][NextScene]_vars

(* ------------------------------ claims --------------------------------- *)
\* The relative point a render recorded in `appended` drew for body id.
Drawn(a, id) ==
  LET p == Positions(a.res) IN Rel(p[id], Anchor(a.view, p))

\* C1: in every reachable state every tracked body's trail (each planet and
\* the sun) holds at most 200 entries.
TrailBounded == \A id \in HistoryKeys : Len(history[id]) <= TrailCap

\* C1 witness: more than 200 renders since the trails were last cleared, and
\* every trail is full.
TrailFullAfterEviction ==
  /\ Len(appended) > TrailCap
  /\ \A id \in HistoryKeys : Len(history[id]) = TrailCap

\* C2: after 200 or more renders with no clearing of the trails in between,
\* every trail has exactly 200 entries, and they are what the most recent
\* 200 renders drew, oldest first.
TrailIsLastRenders ==
  Len(appended) >= TrailCap =>
    \A id \in HistoryKeys :
      /\ Len(history[id]) = TrailCap
      /\ \A i \in 1..TrailCap :
           history[id][i] = Drawn(appended[Len(appended) - TrailCap + i], id)

\* C2 witness: 250 frames of continuous play since the last clearing.
Played250 ==
  /\ Len(appended) = TrailCap + 50
  /\ speed > 0
  /\ history["earth"][1] # history["earth"][TrailCap]

\* Every trail is empty.
TrailsEmpty == \A id \in HistoryKeys : history[id] = <<>>

\* C3 as claimed: a frame switch, a date commit and a unit nudge each leave
\* every trail empty in the state right after the handler.
ClearingActionsEmptyTrails ==
  last.op \in {"frame", "date", "nudge"} => TrailsEmpty

\* C3 as amended: a frame switch, a unit nudge and a date commit whose fields
\* give a valid date leave every trail empty; a date commit whose fields give
\* no valid date leaves the trails as long as they were.
AppliedClearingEmptiesTrails ==
  /\ last.op \in {"frame", "nudge"} => TrailsEmpty
  /\ last.op = "date" =>
       IF DateFromInputs(last.arg).nan
         THEN \A id \in HistoryKeys : Len(history[id]) = last.len
         ELSE TrailsEmpty

\* C3 witness: a date commit with a valid date found trails with entries and
\* left them empty.
DateCommitClearedTrail ==
  /\ last.op = "date"
  /\ ~DateFromInputs(last.arg).nan
  /\ last.len > 0
  /\ TrailsEmpty

\* The number of days of month m (1..12) of year y.
DaysInMonth(y, m) == MakeDay(y, m, 1) - MakeDay(y, m - 1, 1)

\* The fields are unparseable, or name no calendar date.
FieldsInvalid(f) ==
  LET y == parseInt(f[1])
      m == parseInt(f[2])
      d == parseInt(f[3])
  IN \/ y.nan \/ m.nan \/ d.nan
     \/ m.v \notin 1..12
     \/ d.v \notin 1..DaysInMonth(y.v, m.v)

\* C4 as claimed: a date commit whose fields are unparseable or out of range
\* leaves days, and the rest of the clock state, as they were.
InvalidDateDiscarded ==
  [][(last'.op = "date" /\ FieldsInvalid(last'.arg)) =>
       UNCHANGED <<days, speed, direction>>]_vars

\* C5: once the provider has thrown it stays disabled: a call that comes back
\* with the linear model's result while the provider was set has unset it, an
\* unset provider is never set again, and while it is unset every
\* getPositions promise holds the linear model's result.
ProviderStaysDisabled ==
  [][/\ (last'.op = "loop" /\ ephemerisProvider = "provider"
           /\ awaiting'[Len(awaiting')].src = "linear")
          => ephemerisProvider' = "null"
     /\ ephemerisProvider = "null" => ephemerisProvider' = "null"
     /\ ephemerisProvider' = "null" =>
          \A i \in DOMAIN awaiting' : awaiting'[i].src = "linear"]_vars

\* C5 witness: the library is present, the provider has been disabled by a
\* throw in an earlier frame, and a later frame's call gave the linear result.
LaterCallAfterThrow ==
  /\ astronomy
  /\ ephemerisProvider = "null"
  /\ last.op = "loop"
  /\ Len(appended) >= 1
  /\ appended[Len(appended)].res.src = "linear"
  /\ Head(awaiting).src = "linear"

\* A relative point computed from a malformed vector.
IsNaN(e) == e.p.k = "nan" \/ e.o.k = "nan"

\* C6 as claimed: a malformed provider result is treated as a failure and
\* the linear model's positions are used instead, so no render draws from a
\* malformed result: no trail entry is computed from one.
MalformedNeverRendered ==
  \A id \in HistoryKeys : \A i \in DOMAIN history[id] : ~IsNaN(history[id][i])

\* C7 as claimed: zoom is never below the floor 0.0001 (so never zero or
\* negative).
ZoomAtLeastFloor == zoom >= ZoomFloor

\* C8 as claimed, for runs inside the range the claim gives zoom: a wheel-out
\* event strictly decreases zoom and leaves it at or above the floor; a
\* wheel-in event strictly increases it.
WheelStrictlyMonotone ==
  [][(last'.op = "wheel" /\ zoom >= ZoomFloor) =>
       /\ zoom' >= ZoomFloor
       /\ last'.arg > 0 => zoom' < zoom
       /\ last'.arg <= 0 => zoom' > zoom]_vars

\* C8 as amended: after a viewport wheel event zoom is at or above the floor;
\* a wheel-out event strictly decreases a zoom above the floor (to 0.9 of it,
\* or to the floor when that would be lower) and sets a zoom at or below the
\* floor to the floor; a wheel-in event strictly increases zoom (to 1.1 of
\* it, or to the floor when that would be lower).
WheelMonotoneToFloor ==
  [][last'.op = "wheel" =>
       /\ zoom' >= ZoomFloor
       /\ last'.arg > 0 =>
            /\ zoom > ZoomFloor => zoom' < zoom
            /\ zoom <= ZoomFloor => zoom' = ZoomFloor
            /\ zoom' # ZoomFloor => zoom' = (zoom * 9) \div 10
       /\ last'.arg <= 0 =>
            /\ zoom' > zoom
            /\ zoom' # ZoomFloor => zoom' = (zoom * 11) \div 10]_vars

\* C8 witness: a wheel-out event found zoom at the floor and left it there.
WheelOutAtFloor ==
  /\ last.op = "wheel"
  /\ last.arg > 0
  /\ last.zoom = ZoomFloor
  /\ zoom = ZoomFloor

\* C9: a frame taken with speed = 0 leaves days unchanged, a frame taken with
\* speed > 0 changes days by exactly (speed / 1000) * direction, and only the
\* speed slider changes speed.
ClockTwoStates ==
  [][/\ last'.op = "loop" =>
          days' = IF speed > 0
                    THEN days + speed * direction * (UnitsPerDay \div 1000)
                    ELSE days
     /\ speed' # speed => last'.op = "speed"]_vars

\* C9 witness: a frame taken while playing has moved days.
PlayingFrameMovedDays ==
  /\ last.op = "loop"
  /\ speed > 0
  /\ days # last.days

\* C10: with direction reversed and speed > 0 every frame decreases days by
\* exactly speed / 1000; direction stays reversed until Forward is clicked;
\* a click on Forward or Reverse leaves days unchanged.
ReversePlayDecreases ==
  [][/\ (last'.op = "loop" /\ direction = -1 /\ speed > 0) =>
          /\ days' < days
          /\ days' = days - speed * (UnitsPerDay \div 1000)
     /\ (direction = -1 /\ direction' # -1) =>
          (last'.op = "flow" /\ last'.arg = 1)
     /\ last'.op = "flow" => (days' = days /\ direction' = last'.arg)]_vars

\* C10 witness: after Reverse, a frame at speed 2 took 2/1000 day off days.
ReverseFrameAtSpeed2 ==
  /\ last.op = "loop"
  /\ direction = -1
  /\ speed = 2
  /\ days = last.days - 2 * (UnitsPerDay \div 1000)

\* The date fields holding year 2000, month 1, day 1.
Fields2000Jan1 == <<T2000, <<"0", "1">>, <<"0", "1">>>>

\* C11 as claimed: a commit of year 2000, month 1, day 1 leaves days at about
\* -0.5 (within a hundredth of a day), whatever days was before.
DateJ2000HalfDayBefore ==
  (last.op = "date" /\ last.arg = Fields2000Jan1) =>
    /\ days >= -(UnitsPerDay \div 2) - (UnitsPerDay \div 100)
    /\ days <= -(UnitsPerDay \div 2) + (UnitsPerDay \div 100)

\* C11 as amended: a commit of year 2000, month 1, day 1 leaves days at
\* exactly 0, the reference epoch itself, whatever days was before.
DateJ2000IsEpoch ==
  (last.op = "date" /\ last.arg = Fields2000Jan1) => days = 0

\* C11 witness: the commit of 2000-01-01 found days elsewhere and set it to 0.
CommitJ2000MovedDays ==
  /\ last.op = "date"
  /\ last.arg = Fields2000Jan1
  /\ last.days # 0
  /\ days = 0

\* C12: a click on Forward or Reverse leaves every trail as it was and
\* changes only direction, to the button's sign; a click on Sync leaves every
\* trail as it was and changes only days, to the current offset from J2000.
ToggleAndSyncKeepTrails ==
  [][/\ last'.op = "flow" =>
          /\ history' = history
          /\ direction' = last'.arg
          /\ UNCHANGED <<days, view, speed, zoom, pos, panning>>
     /\ last'.op = "sync" =>
          /\ history' = history
          /\ days' = last'.arg
          /\ UNCHANGED <<view, speed, direction, zoom, pos, panning>>]_vars

\* C12 witness: a click on Sync moved days and found and left trails with an
\* entry.
SyncKeptNonEmptyTrail ==
  /\ last.op = "sync"
  /\ days # last.days
  /\ last.len > 0
  /\ \A id \in HistoryKeys : Len(history[id]) = last.len

\* step is the increment C18 gives the unit: 365.25 = 1461/4 days,
\* 30.44 = 761/25 days, 1 day, 1/24, 1/1440 and 1/86400 day.
ClaimedStep(unit, step) ==
  CASE unit = "year" -> step * 4 = 1461 * UnitsPerDay
    [] unit = "month" -> step * 25 = 761 * UnitsPerDay
    [] unit = "day" -> step = UnitsPerDay
    [] unit = "hour" -> step * 24 = UnitsPerDay
    [] unit = "minute" -> step * 1440 = UnitsPerDay
    [] unit = "second" -> step * 86400 = UnitsPerDay

\* C18: a wheel event on a time-unit control adds the unit's increment to
\* days on scroll-up (deltaY < 0) and subtracts it on scroll-down
\* (deltaY > 0), and leaves zoom, pan, frame mode, speed and direction as
\* they were.
UnitWheelNudgesDays ==
  [][last'.op = "nudge" =>
       /\ last'.arg[2] < 0 => ClaimedStep(last'.arg[1], days' - days)
       /\ last'.arg[2] > 0 => ClaimedStep(last'.arg[1], days - days')
       /\ UNCHANGED <<zoom, pos, panning, view, speed, direction>>]_vars

\* C18 witness: a scroll-down on the month control took 30.44 days off days.
MonthWheelDown ==
  /\ last.op = "nudge"
  /\ last.arg = <<"month", 100>>
  /\ (last.days - days) * 25 = 761 * UnitsPerDay

\* style.display of a pooled element.
Shows(member, id) == pool[<<member, id>>].display

\* C13 as claimed: after a render in Geocentric mode Earth's marker, orbit
\* ring, outer-ring marker and connector line are hidden, whatever the orbit
\* checkbox holds; after a render in Heliocentric mode Earth's marker, outer
\* marker and connector are shown.
GeoHidesEarth ==
  last.op = "render" =>
    IF view = "geo"
      THEN /\ Shows("planetGroups", "earth") = "none"
           /\ Shows("orbitCircles", "earth") = "none"
           /\ Shows("markerTexts", "earth") = "none"
           /\ Shows("markerLines", "earth") = "none"
      ELSE /\ Shows("planetGroups", "earth") = "block"
           /\ Shows("markerTexts", "earth") = "block"
           /\ Shows("markerLines", "earth") = "block"

\* C14: a render leaves a planet's trail path shown exactly when the trails
\* checkbox is checked and the planet's trail held at least 2 points when the
\* render drew it (before the render's own entry); a path that is not shown
\* is hidden and still in the pool.
TrailVisibleIff ==
  [][last'.op = "render" =>
       \A id \in PlanetIds :
         /\ <<"trailPaths", id>> \in DOMAIN pool'
         /\ pool'[<<"trailPaths", id>>].display =
              (IF chkTrails /\ Len(history[id]) >= 2 THEN "block" ELSE "none")]_vars

\* C14 witness: a render that found exactly 2 points in Earth's trail and the
\* checkbox checked has shown the trail path.
TrailShownFromTwoPoints ==
  /\ last.op = "render"
  /\ chkTrails
  /\ last.len = 2
  /\ Len(history["earth"]) = 3
  /\ Shows("trailPaths", "earth") = "block"

DrawnRelativeToAnchor ==
  last.op = "render" =>
    LET p == Positions(appended[Len(appended)].res)
        a == IF view = "geo" THEN p["earth"] ELSE Origin
    IN /\ \A id \in PlanetIds :
            pool[<<"planetGroups", id>>].at = [p |-> p[id], o |-> a]
       /\ pool[<<"sunCircle", "">>].at = [p |-> p["sun"], o |-> a]
       /\ pool[<<"moonGroup", "">>].at = [p |-> p["earth"], o |-> a]
       /\ \A id \in HistoryKeys :
            history[id][Len(history[id])] = [p |-> p[id], o |-> a]

\* C16 witness: a Geocentric render placed Mars at its position minus
\* Earth's.
MarsDrawnFromEarth ==
  /\ last.op = "render"
  /\ view = "geo"
  /\ pool[<<"planetGroups", "mars">>].at.p.id = "mars"
  /\ pool[<<"planetGroups", "mars">>].at.o.id = "earth"

\* C17 as claimed: while a provider call is outstanding (a render is
\* suspended at its await) input events are still handled.
HandledWhileOutstanding == awaiting # <<>> => ENABLED Input

\* C17 as amended: an input handler runs only when no provider call is
\* outstanding, a render completes right after the frame that started it, and
\* a render that completes draws with the pan, zoom, frame mode and days
\* current at its completion.
HandledBetweenFrames ==
  [][/\ last'.op \notin {"loop", "render"} => awaiting = <<>>
     /\ last'.op = "render" =>
          /\ last.op = "loop"
          /\ world' = [set |-> TRUE, x |-> pos'.x, y |-> pos'.y, zoom |-> zoom']
          /\ appended'[Len(appended')].view = view'
          /\ appended'[Len(appended')].res.d = days'
          /\ pool'[<<"planetGroups", "earth">>].display =
               (IF view' = "geo" THEN "none" ELSE "block")]_vars

\* C17 witness: a click on Geocentric was reflected in the render that
\* completed next.
FrameClickReflected ==
  /\ last.op = "render"
  /\ view = "geo"
  /\ appended[Len(appended)].view = "geo"
  /\ appended[Len(appended)].res.d = days
  /\ world = [set |-> TRUE, x |-> pos.x, y |-> pos.y, zoom |-> zoom]
  /\ Shows("planetGroups", "earth") = "none"

TrailsInCurrentFrame ==
  \A id \in HistoryKeys : \A i \in DOMAIN history[id] :
    LET o == history[id][i].o
    IN IF view = "geo" THEN o.id = "earth" /\ o.k # "origin" ELSE o = Origin

\* C20 witness: a render in Heliocentric mode, a click on Geocentric, and a
\* render whose entry is relative to Earth.
GeoTrailAfterSwitch ==
  /\ last.op = "render"
  /\ view = "geo"
  /\ ticks >= 2
  /\ Len(history["mars"]) = 1
  /\ history["mars"][1].o.id = "earth"

====
